---- MODULE Spec2Model ----
(***************************************************************************)
(* The x86 register context of the runtime (runtime/arch/x86/             *)
(* context_x86.cc): Reset, FillCalleeSaves, SmashCallerSaves, SetGPR,      *)
(* SetFPR and DoLongJump over the slot arrays gprs_ and fprs_.             *)
(*                                                                         *)
(* Machine words are 32 bits wide.  A word is represented by the integer   *)
(* it denotes in two's complement (0xFFFFFFFC is -4), so that + and - on   *)
(* the representation are + and - modulo 2^32 of uintptr_t and size_t, and *)
(* the conversion of a size_t to the int parameter of CalleeSaveAddress    *)
(* is the identity on the representation.                                  *)
(*                                                                         *)
(* A spill mask is represented by the set of its set bit indices:          *)
(* ((mask >> i) & 1) != 0 is i \in mask and POPCOUNT is the cardinality.   *)
(***************************************************************************)
EXTENDS Integers, FiniteSets, Sequences, TLC

(***************************************************************************)
(* Program constants                                                       *)
(***************************************************************************)
kNumberOfCpuRegisters == 8
EAX == 0
ECX == 1
EDX == 2
EBX == 3
ESP == 4
EBP == 5
ESI == 6
EDI == 7
\* XMM0..XMM7, the registers the long jump loads
kNumberOfXmmRegisters == 8
\* the floating-point slots: two uint32_t pieces per XMM register
kNumberOfFloatRegisters == 16
\* 0xebad6070 and 0xebad8070 as 32-bit words
kBadGprBase == -340959120
kBadFprBase == -340950928
\* sizeof(intptr_t), the machine word in bytes
SizeofIntptr == 4
\* the bit of the return address pseudo register in a core spill mask
ReturnAddressBit == kNumberOfCpuRegisters

(***************************************************************************)
(* Bounds of the model                                                     *)
(***************************************************************************)
\* words of stack memory that are mapped
StackWords == 8
\* Set calls (SetGPR, SetFPR, SetReturnAddress) in one run
MaxSets == 1
\* set bits of a floating-point spill mask in the frames of SpecFillQuick
MaxFpSpills == 2
\* highest bit of a core spill mask in the frames of SpecFill and SpecFillQuick
MaxCoreBit == 8

(***************************************************************************)
(* Memory: the mapped words are the stack words, the Context's esp_ field  *)
(* and the constant gZero.                                                 *)
(***************************************************************************)
nullptr == 0
AddrOf_gZero == 256
AddrOf_esp == 512
StackBase == 4096
StackAddr(w) == StackBase + SizeofIntptr * w
StackAddrs == {StackAddr(w) : w \in 0..(StackWords - 1)}
MemAddrs == StackAddrs \cup {AddrOf_esp, AddrOf_gZero}
\* gZero is constexpr: a store to it faults
Writable == MemAddrs \ {AddrOf_gZero}

\* the word a stack word holds before anything is written to it
Marker(a) == 100 + (a - StackBase) \div SizeofIntptr

\* the values the unwinder passes to the setters
Values == {57005, StackAddr(7)}

VARIABLES
  debug,    \* DCHECKs are compiled in (debug build)
  i386,     \* __i386__ is defined
  gprs_,    \* uintptr_t* gprs_[kNumberOfCpuRegisters]
  fprs_,    \* uint32_t* fprs_[kNumberOfFloatRegisters]
  eip_,     \* uintptr_t eip_
  mem,      \* the mapped words; mem[AddrOf_esp] is the field esp_
  status,   \* "running", "fatal" (CHECK/DCHECK/UNIMPLEMENTED), "segv", "jumped"
  cpu,      \* the hardware registers and scratch buffers of the long jump
  stray,    \* the out-of-bounds elements of fprs_ the last FillCalleeSaves stored to
  nsets,    \* Set calls so far
  last      \* the last call and its arguments

vars == <<debug, i386, gprs_, fprs_, eip_, mem, status, cpu, stray, nsets, last>>

esp_ == mem[AddrOf_esp]
gZero == mem[AddrOf_gZero]

GprIndex == 0..(kNumberOfCpuRegisters - 1)
FprIndex == 0..(kNumberOfFloatRegisters - 1)

(***************************************************************************)
(* The frame a StackVisitor presents: its method's core and floating-point *)
(* spill masks and the address of the frame's return address word.         *)
(***************************************************************************)
NoFrame == [core |-> {}, fp |-> {}, ret |-> nullptr]

POPCOUNT(mask) == Cardinality(mask)

\* StackVisitor::CalleeSaveAddress(num, frame_size): callee saves are held at the
\* top of the frame, below the return address; a higher num is farther away.
CalleeSaveAddress(fr, num) == fr.ret - SizeofIntptr * (num + 1)

NoCpu ==
  [gpr |-> [i \in GprIndex |-> 0],
   xmm |-> [k \in 0..(kNumberOfXmmRegisters - 1) |-> <<0, 0>>],
   eip |-> 0,
   gprs |-> [k \in 0..kNumberOfCpuRegisters |-> 0],
   fprs |-> [k \in FprIndex |-> 0],
   store |-> [addr |-> 0, val |-> 0]]

Call(op, reg, value, fr) == [op |-> op, reg |-> reg, value |-> value, fr |-> fr]

(***************************************************************************)
(* Reset (lines 29-40); the constructor calls it.                          *)
(***************************************************************************)
\* Reset without line 36
ResetGprs_EspUnset == [i \in GprIndex |-> nullptr]

ResetGprs == [i \in GprIndex |-> IF i = ESP THEN AddrOf_esp ELSE nullptr]

ResetFprs == [i \in FprIndex |-> nullptr]

ResetEsp == kBadGprBase + ESP

ResetEip == kBadGprBase + kNumberOfCpuRegisters

Reset ==
  /\ status = "running"
  /\ gprs_' = ResetGprs
  /\ fprs_' = ResetFprs
  /\ mem' = [mem EXCEPT ![AddrOf_esp] = ResetEsp]
  /\ eip_' = ResetEip
  /\ last' = Call("Reset", 0, 0, NoFrame)
  /\ UNCHANGED <<debug, i386, status, cpu, stray, nsets>>

Init ==
  /\ debug \in BOOLEAN
  /\ i386 \in BOOLEAN
  /\ gprs_ = ResetGprs
  /\ fprs_ = ResetFprs
  /\ eip_ = ResetEip
  /\ mem = [a \in MemAddrs |->
              IF a = AddrOf_esp THEN ResetEsp
              ELSE IF a = AddrOf_gZero THEN 0
              ELSE Marker(a)]
  /\ status = "running"
  /\ cpu = NoCpu
  /\ stray = {}
  /\ nsets = 0
  /\ last = Call("Init", 0, 0, NoFrame)

(***************************************************************************)
(* FillCalleeSaves (lines 42-75)                                           *)
(***************************************************************************)
\* the loop of lines 50-55, clearing the slot of a register whose bit is clear
RECURSIVE FillCoreLoop_Clearing(_, _, _, _, _)
FillCoreLoop_Clearing(g, fr, spill_count, i, j) ==
  IF i >= kNumberOfCpuRegisters THEN g
  ELSE IF i \in fr.core
       THEN FillCoreLoop_Clearing(
              [g EXCEPT ![i] = CalleeSaveAddress(fr, spill_count - j)],
              fr, spill_count, i + 1, j + 1)
       ELSE FillCoreLoop_Clearing([g EXCEPT ![i] = nullptr],
                                  fr, spill_count, i + 1, j)

\* the loop of lines 50-55 from register i on, j as in the code
RECURSIVE FillCoreLoop(_, _, _, _, _)
FillCoreLoop(g, fr, spill_count, i, j) ==
  IF i >= kNumberOfCpuRegisters THEN g
  ELSE IF i \in fr.core
       THEN FillCoreLoop([g EXCEPT ![i] = CalleeSaveAddress(fr, spill_count - j)],
                         fr, spill_count, i + 1, j + 1)
       ELSE FillCoreLoop(g, fr, spill_count, i + 1, j)

\* a store to fprs_[idx]: into the array when idx is an index of it, and a
\* stray store past its end otherwise
StoreFpr(f, idx, ptr) ==
  IF idx \in FprIndex
  THEN [slots |-> [f.slots EXCEPT ![idx] = ptr], stray |-> f.stray]
  ELSE [slots |-> f.slots, stray |-> f.stray \cup {<<idx, ptr>>}]

\* the loop of lines 61-73 from register i on, j as in the code
RECURSIVE FillFpLoop(_, _, _, _, _)
FillFpLoop(f, fr, spill_count, i, j) ==
  IF i >= kNumberOfFloatRegisters THEN f
  ELSE IF i \in fr.fp
       THEN LET fp_spill_size_in_words == POPCOUNT(fr.fp) * 2
                lo == CalleeSaveAddress(fr, spill_count + fp_spill_size_in_words - j)
                hi == CalleeSaveAddress(fr, spill_count + fp_spill_size_in_words - j - 1)
            IN FillFpLoop(StoreFpr(StoreFpr(f, 2 * i, lo), 2 * i + 1, hi),
                          fr, spill_count, i + 1, j + 2)
       ELSE FillFpLoop(f, fr, spill_count, i + 1, j)

\* lines 47-56 with j starting at 1, as where the return address is a register
FillCore_NoReturnAddressSkip(g, fr) ==
  IF POPCOUNT(fr.core) > 0 THEN FillCoreLoop(g, fr, POPCOUNT(fr.core), 0, 1) ELSE g

FillCore(g, fr) ==
  IF POPCOUNT(fr.core) > 0 THEN FillCoreLoop(g, fr, POPCOUNT(fr.core), 0, 2) ELSE g

FillFp(f, fr) ==
  IF POPCOUNT(fr.fp) > 0
  THEN FillFpLoop([slots |-> f, stray |-> {}], fr, POPCOUNT(fr.core), 0, 2)
  ELSE [slots |-> f, stray |-> {}]

\* A stray store lands in what follows fprs_ in the object.  Whether that is the
\* scalars esp_ and eip_ depends on the layout: both outcomes are possible.
StrayPtr(s, idx, old) ==
  IF \E e \in s : e[1] = idx THEN (CHOOSE e \in s : e[1] = idx)[2] ELSE old

FillCalleeSaves(fr) ==
  /\ status = "running"
  /\ gprs_' = FillCore(gprs_, fr)
  /\ fprs_' = FillFp(fprs_, fr).slots
  /\ stray' = FillFp(fprs_, fr).stray
  /\ \/ /\ mem' = mem
        /\ eip_' = eip_
     \/ /\ stray' # {}
        /\ mem' = [mem EXCEPT ![AddrOf_esp] =
                     StrayPtr(stray', kNumberOfFloatRegisters, esp_)]
        /\ eip_' = StrayPtr(stray', kNumberOfFloatRegisters + 1, eip_)
  /\ last' = Call("FillCalleeSaves", 0, 0, fr)
  /\ UNCHANGED <<debug, i386, status, cpu, nsets>>

(***************************************************************************)
(* SmashCallerSaves (lines 77-84)                                          *)
(***************************************************************************)
\* lines 79-82, clearing the stack pointer's slot with the caller saves
SmashGprs_AlsoEsp(g) ==
  [g EXCEPT ![EAX] = AddrOf_gZero, ![EDX] = AddrOf_gZero,
            ![ECX] = nullptr, ![EBX] = nullptr, ![ESP] = nullptr]

SmashGprs(g) ==
  [g EXCEPT ![EAX] = AddrOf_gZero, ![EDX] = AddrOf_gZero,
            ![ECX] = nullptr, ![EBX] = nullptr]

\* memset with the number of elements as its byte count
SmashFprs_ElementCount(f) ==
  [i \in DOMAIN f |-> IF i * SizeofIntptr < kNumberOfFloatRegisters THEN nullptr ELSE f[i]]

\* memset(&fprs_[0], '\0', sizeof(fprs_))
SmashFprs(f) == [i \in DOMAIN f |-> nullptr]

SmashCallerSaves ==
  /\ status = "running"
  /\ gprs_' = SmashGprs(gprs_)
  /\ fprs_' = SmashFprs(fprs_)
  /\ last' = Call("SmashCallerSaves", 0, 0, NoFrame)
  /\ UNCHANGED <<debug, i386, eip_, mem, status, cpu, stray, nsets>>

(***************************************************************************)
(* SetGPR and SetFPR (lines 86-98), and the setter of the return address   *)
(***************************************************************************)
\* bool IsAccessibleGPR(reg) / IsAccessibleFPR(reg): the slot is bound
IsAccessibleGPR(reg) == gprs_[reg] # nullptr

IsAccessibleFPR(reg) == fprs_[reg] # nullptr

\* CHECK, DCHECK and UNIMPLEMENTED(FATAL) abort the process
Fatal ==
  /\ status' = "fatal"
  /\ mem' = mem

\* *p = value.  A store through a pointer to no mapped writable word (nullptr
\* among them) is undefined: it faults, or it has no effect on the modelled words.
StoreThrough(p, value) ==
  IF p \in Writable
  THEN /\ mem' = [mem EXCEPT ![p] = value]
       /\ status' = status
  ELSE /\ mem' = mem
       /\ status' \in {"segv", "running"}

\* SetGPR without line 89
SetGPR_NoZeroCheck(reg, value) ==
  /\ status = "running"
  /\ nsets < MaxSets
  /\ nsets' = nsets + 1
  /\ last' = Call("SetGPR", reg, value, NoFrame)
  /\ IF ~(reg < kNumberOfCpuRegisters) THEN Fatal
     ELSE IF debug /\ ~IsAccessibleGPR(reg) THEN Fatal
     ELSE StoreThrough(gprs_[reg], value)
  /\ UNCHANGED <<debug, i386, gprs_, fprs_, eip_, cpu, stray>>

\* SetGPR without line 88
SetGPR_NoAccessibleCheck(reg, value) ==
  /\ status = "running"
  /\ nsets < MaxSets
  /\ nsets' = nsets + 1
  /\ last' = Call("SetGPR", reg, value, NoFrame)
  /\ IF ~(reg < kNumberOfCpuRegisters) THEN Fatal
     ELSE IF ~(gprs_[reg] # AddrOf_gZero) THEN Fatal
     ELSE StoreThrough(gprs_[reg], value)
  /\ UNCHANGED <<debug, i386, gprs_, fprs_, eip_, cpu, stray>>

\* SetGPR with line 90 assigning the slot instead of the word it points to
SetGPR_Rebinds(reg, value) ==
  /\ status = "running"
  /\ nsets < MaxSets
  /\ nsets' = nsets + 1
  /\ last' = Call("SetGPR", reg, value, NoFrame)
  /\ IF ~(reg < kNumberOfCpuRegisters) THEN Fatal /\ gprs_' = gprs_
     ELSE IF debug /\ ~IsAccessibleGPR(reg) THEN Fatal /\ gprs_' = gprs_
     ELSE IF ~(gprs_[reg] # AddrOf_gZero) THEN Fatal /\ gprs_' = gprs_
     ELSE /\ gprs_' = [gprs_ EXCEPT ![reg] = value]
          /\ mem' = mem
          /\ status' = status
  /\ UNCHANGED <<debug, i386, fprs_, eip_, cpu, stray>>

SetGPR(reg, value) ==
  /\ status = "running"
  /\ nsets < MaxSets
  /\ nsets' = nsets + 1
  /\ last' = Call("SetGPR", reg, value, NoFrame)
  /\ IF ~(reg < kNumberOfCpuRegisters) THEN Fatal
     ELSE IF debug /\ ~IsAccessibleGPR(reg) THEN Fatal
     ELSE IF ~(gprs_[reg] # AddrOf_gZero) THEN Fatal
     ELSE StoreThrough(gprs_[reg], value)
  /\ UNCHANGED <<debug, i386, gprs_, fprs_, eip_, cpu, stray>>

SetFPR(reg, value) ==
  /\ status = "running"
  /\ nsets < MaxSets
  /\ nsets' = nsets + 1
  /\ last' = Call("SetFPR", reg, value, NoFrame)
  /\ IF ~(reg < kNumberOfFloatRegisters) THEN Fatal
     ELSE IF debug /\ ~IsAccessibleFPR(reg) THEN Fatal
     ELSE IF ~(fprs_[reg] # AddrOf_gZero) THEN Fatal
     ELSE StoreThrough(fprs_[reg], value)
  /\ UNCHANGED <<debug, i386, gprs_, fprs_, eip_, cpu, stray>>

\* the unwinder sets the instruction pointer to resume at
SetReturnAddress(value) ==
  /\ status = "running"
  /\ nsets < MaxSets
  /\ nsets' = nsets + 1
  /\ eip_' = value
  /\ last' = Call("SetReturnAddress", 0, value, NoFrame)
  /\ UNCHANGED <<debug, i386, gprs_, fprs_, mem, status, cpu, stray>>

(***************************************************************************)
(* DoLongJump (lines 100-137)                                              *)
(***************************************************************************)
\* lines 104-107 filling the scratch array forward
ScratchGprs_Forward(esp) ==
  [k \in 0..kNumberOfCpuRegisters |->
     IF k = kNumberOfCpuRegisters THEN esp
     ELSE IF gprs_[k] # nullptr THEN mem[gprs_[k]] ELSE kBadGprBase + k]

\* the scratch array gprs of lines 104-107 and 114, esp the value of line 113
ScratchGprs(esp) ==
  [k \in 0..kNumberOfCpuRegisters |->
     IF k = kNumberOfCpuRegisters THEN esp
     ELSE LET i == kNumberOfCpuRegisters - k - 1
          IN IF gprs_[i] # nullptr THEN mem[gprs_[i]] ELSE kBadGprBase + i]

\* the scratch array fprs of lines 108-111
ScratchFprs ==
  [i \in FprIndex |-> IF fprs_[i] # nullptr THEN mem[fprs_[i]] ELSE kBadFprBase + i]

\* line 113: one slot below the stack pointer value
JumpEsp ==
  (IF gprs_[ESP] # nullptr THEN mem[gprs_[ESP]] ELSE kBadGprBase + ESP) - SizeofIntptr

\* popal pops EDI, ESI, EBP, skips the stack pointer's word, then pops EBX, EDX,
\* ECX and EAX, from ascending addresses
PopalOrder == <<EDI, ESI, EBP, ESP, EBX, EDX, ECX, EAX>>

\* lines 116-132: movsd 8k(%ebx) loads XMMk from fprs[2k] and fprs[2k+1];
\* popal; popl %esp; ret pops eip from the word at esp, `top` the word there
AfterJump(gprs, fprs, top) ==
  [gpr |-> [r \in GprIndex |->
              IF r = ESP THEN gprs[kNumberOfCpuRegisters] + SizeofIntptr
              ELSE gprs[(CHOOSE k \in 1..Len(PopalOrder) : PopalOrder[k] = r) - 1]],
   xmm |-> [k \in 0..(kNumberOfXmmRegisters - 1) |-> <<fprs[2 * k], fprs[2 * k + 1]>>],
   eip |-> top,
   gprs |-> gprs,
   fprs |-> fprs,
   store |-> [addr |-> gprs[kNumberOfCpuRegisters], val |-> top]]

\* every bound slot points to a mapped word
SlotsReadable ==
  /\ \A i \in GprIndex : gprs_[i] # nullptr => gprs_[i] \in MemAddrs
  /\ \A i \in FprIndex : fprs_[i] # nullptr => fprs_[i] \in MemAddrs

DoLongJump ==
  /\ status = "running"
  /\ last' = Call("DoLongJump", 0, 0, NoFrame)
  /\ IF ~i386
     THEN /\ Fatal
          /\ cpu' = cpu
     ELSE IF ~SlotsReadable
     THEN /\ status' = "segv"
          /\ mem' = mem
          /\ cpu' = cpu
     ELSE IF JumpEsp \in Writable
     THEN /\ mem' = [mem EXCEPT ![JumpEsp] = eip_]
          /\ status' = "jumped"
          /\ cpu' = AfterJump(ScratchGprs(JumpEsp), ScratchFprs, mem'[JumpEsp])
     ELSE \* a store through a pointer to no mapped writable word
          /\ mem' = mem
          /\ \/ /\ status' = "segv"
                /\ cpu' = cpu
             \/ /\ status' = "jumped"
                /\ cpu' = AfterJump(ScratchGprs(JumpEsp), ScratchFprs, eip_)
  /\ UNCHANGED <<debug, i386, gprs_, fprs_, eip_, stray, nsets>>

(***************************************************************************)
(* The unwinder: any sequence of calls on the frames of a sample stack     *)
(***************************************************************************)
Frame(core, fp, w) == [core |-> core, fp |-> fp, ret |-> StackAddr(w)]

Frames ==
  { Frame({EBP, ESI, EDI, ReturnAddressBit}, {}, 7),
    Frame({EDX, EBP}, {}, 3),
    Frame({ESP, ReturnAddressBit}, {}, 3),
    Frame({ESI, ReturnAddressBit}, {2}, 4) }

Next ==
  \/ Reset
  \/ \E fr \in Frames : FillCalleeSaves(fr)
  \/ SmashCallerSaves
  \/ \E reg \in 0..kNumberOfCpuRegisters, value \in Values : SetGPR(reg, value)
  \/ \E reg \in 0..kNumberOfFloatRegisters, value \in Values : SetFPR(reg, value)
  \/ \E value \in Values : SetReturnAddress(value)
  \/ DoLongJump

Spec == Init /\ [][Next]_vars

(***************************************************************************)
(* FillCalleeSaves on a freshly constructed Context, for every core spill  *)
(* mask over the registers and the return address bit; the floating-point  *)
(* mask has at most one bit, it does not matter to lines 47-56             *)
(***************************************************************************)
CoreMasks == SUBSET (0..MaxCoreBit)

FpMasks == {m \in SUBSET FprIndex : Cardinality(m) <= MaxFpSpills}

OneFpMasks == {m \in FpMasks : Cardinality(m) <= 1}

\* the frame at the top of the stack with these masks
FillFrame(core, fp) == Frame(core, fp, StackWords - 1)

FillFresh ==
  /\ last.op = "Init"
  /\ \E c \in CoreMasks, f \in OneFpMasks : FillCalleeSaves(FillFrame(c, f))

NextFill == FillFresh

\* the build does not matter to FillCalleeSaves
InitFill == Init /\ debug /\ i386

SpecFill == InitFill /\ [][NextFill]_vars

(***************************************************************************)
(* The same for every floating-point spill mask the scan reads, on the     *)
(* frames whose core spill mask has the return address bit, as the mask of *)
(* a quick frame has                                                       *)
(***************************************************************************)
QuickCoreMasks == {m \in CoreMasks : ReturnAddressBit \in m}

FillFreshQuick ==
  /\ last.op = "Init"
  /\ \E c \in QuickCoreMasks, f \in FpMasks : FillCalleeSaves(FillFrame(c, f))

NextFillQuick == FillFreshQuick

SpecFillQuick == InitFill /\ [][NextFillQuick]_vars

(***************************************************************************)
(* Claims                                                                  *)
(***************************************************************************)
\* the number of set bits of mask below bit i
Rank(mask, i) == Cardinality({x \in mask : x < i})

\* the value the long jump reads for a slot bound to p, base + i when unset
SlotValue(p, base, i) == IF p # nullptr THEN mem[p] ELSE base + i

\* C1: Reset() called in any reachable state leaves the same fixed state: every
\* general-purpose slot but the stack pointer's is unset, every floating-point
\* slot is unset, the stack pointer slot is bound to the scalar esp_, esp_ is
\* kBadGprBase + ESP and eip_ is kBadGprBase + kNumberOfCpuRegisters; a second
\* Reset() right after the first changes nothing.
C1_ResetFixedState ==
  [][ /\ last'.op = "Reset" =>
           /\ \A i \in GprIndex \ {ESP} : gprs_'[i] = nullptr
           /\ DOMAIN gprs_' = GprIndex
           /\ \A i \in FprIndex : fprs_'[i] = nullptr
           /\ DOMAIN fprs_' = FprIndex
           /\ gprs_'[ESP] = AddrOf_esp
           /\ mem'[AddrOf_esp] = kBadGprBase + ESP
           /\ eip_' = kBadGprBase + kNumberOfCpuRegisters
           /\ \A a \in StackAddrs \cup {AddrOf_gZero} : mem'[a] = mem[a]
      /\ (last.op = "Reset" /\ last'.op = "Reset") =>
           <<gprs_, fprs_, eip_, mem, status>>' = <<gprs_, fprs_, eip_, mem, status>>
    ]_vars

\* C1 witness: a Reset after the Context was populated, written through and its
\* return address set
C1_Witness ==
  /\ last.op = "Reset"
  /\ nsets > 0
  /\ \E a \in StackAddrs : mem[a] # Marker(a)

C4_SmashCallerSaves ==
  [][ last'.op = "SmashCallerSaves" =>
        /\ \A r \in {EAX, EDX} : gprs_'[r] = AddrOf_gZero /\ mem'[gprs_'[r]] = 0
        /\ \A r \in {ECX, EBX} : gprs_'[r] = nullptr
        /\ \A s \in FprIndex : fprs_'[s] = nullptr
        /\ \A r \in {ESP, EBP, ESI, EDI} : gprs_'[r] = gprs_[r]
    ]_vars

\* C4 witness: a smash of a Context whose callee saves were filled
C4_Witness ==
  /\ last.op = "SmashCallerSaves"
  /\ gprs_[EBP] \in StackAddrs
  /\ gprs_[EDI] \in StackAddrs

\* C5: SetGPR on EAX or EDX while its slot is bound to the zero constant is
\* fatal and writes nothing; in every reachable state the zero constant holds 0.
C5_ZeroConstantProtected ==
  /\ [](gZero = 0)
  /\ [][ ( /\ last'.op = "SetGPR"
           /\ last'.reg \in {EAX, EDX}
           /\ gprs_[last'.reg] = AddrOf_gZero ) =>
         (status' = "fatal" /\ mem' = mem /\ gprs_' = gprs_)
      ]_vars

\* C5 witness: the rejected SetGPR, in a build without DCHECKs
C5_Witness ==
  /\ last.op = "SetGPR"
  /\ last.reg \in {EAX, EDX}
  /\ gprs_[last.reg] = AddrOf_gZero
  /\ status = "fatal"
  /\ ~debug

\* a SetGPR or SetFPR step on an in-range register whose slot is unset
SetOnUnsetSlot ==
  \/ /\ last'.op = "SetGPR"
     /\ last'.reg \in GprIndex
     /\ gprs_[last'.reg] = nullptr
  \/ /\ last'.op = "SetFPR"
     /\ last'.reg \in FprIndex
     /\ fprs_[last'.reg] = nullptr

\* C6 as claimed: SetGPR and SetFPR on an in-range register whose slot is unset
\* end in the fatal contract violation and write to no memory word, in every
\* build configuration.
C6_Original ==
  [][ SetOnUnsetSlot => (status' = "fatal" /\ mem' = mem) ]_vars

\* C6 as amended: in a build with DCHECKs, SetGPR and SetFPR on an in-range
\* register whose slot is unset end in the fatal contract violation and write
\* to no memory word.
C6_FatalInDebugBuild ==
  [][ (debug /\ SetOnUnsetSlot) => (status' = "fatal" /\ mem' = mem) ]_vars

\* C6 witness: the fatal SetGPR and the fatal SetFPR of a debug build, the one
\* on a slot SmashCallerSaves cleared
C6_Witness ==
  /\ debug
  /\ status = "fatal"
  /\ \/ last.op = "SetGPR" /\ last.reg = ECX /\ gprs_[ECX] = nullptr
                           /\ gprs_[EAX] = AddrOf_gZero
     \/ last.op = "SetFPR" /\ last.reg \in FprIndex /\ fprs_[last.reg] = nullptr

\* C7: SetGPR(r, v) on a register whose slot is bound to a writable frame word
\* (for the stack pointer: to esp_) succeeds; afterwards that word holds v, the
\* binding of r is unchanged and no other word, binding or scalar has changed.
C7_SetGPRWritesThrough ==
  [][ ( /\ last'.op = "SetGPR"
        /\ last'.reg \in GprIndex
        /\ gprs_[last'.reg] \in StackAddrs \cup {AddrOf_esp} ) =>
      /\ status' = "running"
      /\ mem'[gprs_[last'.reg]] = last'.value
      /\ \A a \in MemAddrs \ {gprs_[last'.reg]} : mem'[a] = mem[a]
      /\ gprs_' = gprs_
      /\ fprs_' = fprs_
      /\ eip_' = eip_
    ]_vars

\* C7 witness: 0xDEAD written to register 2 of the frame spilling {2, 5} is read
\* back from the frame word
C7_Witness ==
  /\ last.op = "SetGPR"
  /\ last.reg = EDX
  /\ last.value = 57005
  /\ status = "running"
  /\ gprs_[EDX] \in StackAddrs
  /\ mem[gprs_[EDX]] = 57005

\* C8 as claimed: in every reachable state the stack pointer slot is bound to
\* the scalar esp_, and the stack pointer of a long jump is the value of esp_.
C8_Original ==
  /\ gprs_[ESP] = AddrOf_esp
  /\ status = "jumped" => cpu.gpr[ESP] = esp_

\* C8 as amended: the stack pointer slot is bound to esp_ after construction and
\* after Reset, and stays bound to it under every call but a FillCalleeSaves
\* whose core spill mask has the stack pointer's bit; a long jump from such a
\* state resumes with the value of esp_ as stack pointer.
C8_EspSlotKept ==
  /\ gprs_[ESP] = AddrOf_esp
  /\ [][ /\ last'.op = "Reset" => gprs_'[ESP] = AddrOf_esp
         /\ ( /\ gprs_[ESP] = AddrOf_esp
              /\ ~(last'.op = "FillCalleeSaves" /\ ESP \in last'.fr.core) ) =>
            /\ gprs_'[ESP] = AddrOf_esp
            /\ status' = "jumped" => cpu'.gpr[ESP] = mem[AddrOf_esp]
      ]_vars

\* C8 witness: the slot is still bound to esp_ after fills, a smash and a set
C8_Witness ==
  /\ gprs_[ESP] = AddrOf_esp
  /\ gprs_[EAX] = AddrOf_gZero
  /\ gprs_[ESI] \in StackAddrs
  /\ nsets > 0
  /\ status = "jumped"

\* C9: a long jump resumes with the register state of the Context: every
\* general-purpose register but the stack pointer receives the value read
\* through its slot, or kBadGprBase + i when the slot is unset; the values are
\* those before the return address is stored; eip_ is stored to the word one
\* machine word below the stack pointer value, the last scratch position holds
\* that address, and after the return the stack pointer is the stack pointer
\* value and the program counter is eip_.
C9_LongJump ==
  [][ (last'.op = "DoLongJump" /\ status' = "jumped") =>
      LET sp == SlotValue(gprs_[ESP], kBadGprBase, ESP)
      IN /\ \A i \in GprIndex \ {ESP} :
              cpu'.gpr[i] = SlotValue(gprs_[i], kBadGprBase, i)
         /\ cpu'.store = [addr |-> sp - SizeofIntptr, val |-> eip_]
         /\ (sp - SizeofIntptr) \in MemAddrs => mem'[sp - SizeofIntptr] = eip_
         /\ cpu'.gprs[kNumberOfCpuRegisters] = sp - SizeofIntptr
         /\ cpu'.gpr[ESP] = sp
         /\ cpu'.eip = eip_
    ]_vars

\* C9 witness: a completed long jump with an unset slot, and with the slot of
\* EDI bound to the very word the return address is stored to
C9_Witness ==
  /\ status = "jumped"
  /\ gprs_[EAX] = nullptr
  /\ gprs_[EDI] = cpu.store.addr
  /\ cpu.gpr[EDI] # mem[gprs_[EDI]]

\* the bindings C2 states for the core spill mask of frame fr
C2_Bindings(fr) ==
  LET k == Cardinality(fr.core)
      regs == fr.core \cap GprIndex
      Pos(i) == k - 2 - Rank(fr.core, i)
  IN \A i \in regs :
       /\ gprs_[i] = CalleeSaveAddress(fr, Pos(i))
       /\ 0 <= Pos(i)
       /\ Pos(i) < k
       /\ \A i2 \in regs : i < i2 =>
            /\ Pos(i) > Pos(i2)
            /\ gprs_[i] # gprs_[i2]
            /\ gprs_[i] < gprs_[i2]

\* C2 as claimed: for every core spill mask with k set bits, the m-th set bit
\* (from the lowest index) is bound to spill position k - 2 - m, which lies in
\* 0..k-1; no two registers get the same position and a lower index gets a
\* position farther from the frame top.
C2_Original ==
  last.op = "FillCalleeSaves" => C2_Bindings(last.fr)

\* C2 as amended: the same, for every core spill mask whose k set bits include
\* a bit the scan does not read (the return address bit, at
\* kNumberOfCpuRegisters).
C2_FarthestFirst ==
  (last.op = "FillCalleeSaves" /\ \E b \in last.fr.core : b >= kNumberOfCpuRegisters)
    => C2_Bindings(last.fr)

\* C2 witness: a frame spilling three registers and the return address
C2_Witness ==
  /\ last.op = "FillCalleeSaves"
  /\ last.fr.core = {EBP, ESI, EDI, ReturnAddressBit}
  /\ gprs_[EDI] = CalleeSaveAddress(last.fr, 0)
  /\ gprs_[EBP] = CalleeSaveAddress(last.fr, 2)

\* C10: for every floating-point spill mask over the indices below
\* kNumberOfFloatRegisters and any core spill mask, each set bit i binds the
\* slots 2i and 2i+1, both indices of the slot array, to two consecutive spill
\* positions; these are non-negative, lie beyond the positions of the
\* general-purpose registers, are distinct from the positions of every other
\* floating-point half and general-purpose register of the call, and a lower
\* floating-point register is farther from the frame top.
C10_FpPairs ==
  last.op = "FillCalleeSaves" =>
    LET fr == last.fr
        S == Cardinality(fr.core)
        F == Cardinality(fr.fp)
        regs == fr.core \cap GprIndex
        GPos(r) == S - 2 - Rank(fr.core, r)
        Lo(i) == S + 2 * F - 2 - 2 * Rank(fr.fp, i)
        Hi(i) == Lo(i) - 1
    IN \A i \in fr.fp :
         /\ (2 * i) \in FprIndex
         /\ (2 * i + 1) \in FprIndex
         /\ stray = {}
         /\ fprs_[2 * i] = CalleeSaveAddress(fr, Lo(i))
         /\ fprs_[2 * i + 1] = CalleeSaveAddress(fr, Hi(i))
         /\ Hi(i) >= 0
         /\ \A r \in regs : GPos(r) < Hi(i) /\ gprs_[r] \notin {fprs_[2 * i], fprs_[2 * i + 1]}
         /\ fprs_[2 * i] # fprs_[2 * i + 1]
         /\ \A i2 \in fr.fp : i < i2 =>
              /\ Hi(i) > Lo(i2)
              /\ {fprs_[2 * i], fprs_[2 * i + 1]} \cap {fprs_[2 * i2], fprs_[2 * i2 + 1]} = {}

====
